---- MODULE Spec2Model ----
(***************************************************************************)
(* Recording / transcription state machine of the Speech-Recognition-App,  *)
(* in its two variants speech_mod.py and speech_reg.py.  Both variants are *)
(* driven by the same sequence of user intents and the same outcomes of    *)
(* the external collaborators (microphone, recognizer, provider).          *)
(*                                                                         *)
(* A Python string is a sequence of tokens: the first token of a message   *)
(* is its literal prefix up to and including the first colon ("Error:",    *)
(* "API Error:", "Recording error:"), the rest is the remaining text.      *)
(***************************************************************************)
EXTENDS Integers, Sequences, FiniteSets, TLC

VARIABLES mod, reg, last, steps, effective

vars == <<mod, reg, last, steps, effective>>

\* Number of start/pause/stop intents explored.
MaxSteps == 4

None == "<None>"
Unset == "<unset>"
Mic == "Microphone"

APIs == {"Google", "Sphinx", "Wit.ai"}
Languages == {"en-US", "es-ES"}
KeyInputs == {"", "k1"}
Texts == {<<"hello">>, <<"world">>}
Details == {<<"detail">>}

\* Python truthiness of the wit_key argument (`not wit_key`).
Falsy(k) == k = None \/ k = ""

\* ---- outcomes of the external collaborators ----

\* What a recognize_* call can do: return text, or raise one of the
\* exception classes the except clauses distinguish.  Silent audio never
\* produces a text.
ProviderOutcomes(audio) ==
    (IF audio = "speech" THEN {[kind |-> "ok", text |-> t] : t \in Texts} ELSE {})
    \cup {[kind |-> "UnknownValueError", text |-> <<>>]}
    \cup {[kind |-> "RequestError", text |-> d] : d \in Details}
    \cup {[kind |-> "Exception", text |-> d] : d \in Details}

\* Outcomes of one handler run: Microphone() construction, __enter__ of the
\* source, adjust_for_ambient_noise, listen, and the provider call.  A step
\* that is not reached has no outcome ("-").
NoProv == [kind |-> "-", text |-> <<>>]

Env(c, o, a, l, p) == [ctor |-> c, open |-> o, adjust |-> a, listen |-> l, prov |-> p]

NoEnv == Env("-", "-", "-", "-", NoProv)

\* start_recording: the constructor, then (speech_reg.py only) the with
\* block and the calibration.
StartEnvs ==
    { Env("fail", "-", "-", "-", NoProv), Env("ok", "fail", "-", "-", NoProv),
      Env("ok", "ok", "fail", "-", NoProv), Env("ok", "ok", "ok", "-", NoProv) }

\* stop_recording: the with block, listen, then the provider.
StopEnvs ==
    { Env("-", "fail", "-", "-", NoProv), Env("-", "ok", "-", "fail", NoProv) }
    \cup { Env("-", "ok", "-", a, p) : a \in {"speech"}, p \in ProviderOutcomes("speech") }
    \cup { Env("-", "ok", "-", a, p) : a \in {"silent"}, p \in ProviderOutcomes("silent") }

\* ---- messages ----
ModUnintelligible == <<"Error:", "Could not understand audio">>
RegUnintelligible == <<"Error:", "Speech not understood">>
KeyRequired == <<"Error:", "Wit.ai API key is required">>
ModApiUnavailable(d) == <<"Error:", "API unavailable -">> \o d
RegApiError(d) == <<"API Error:">> \o d
GenericError(d) == <<"Error:">> \o d
RecordingError(d) == <<"Recording error:">> \o d

\* ---- transcribe_speech ----

\* The value returned for what the provider call did: its text, or the
\* message of the except clause that catches what it raised.
ModProviderResultCatchAll(prov) ==
    IF prov.kind = "ok" THEN prov.text ELSE GenericError(prov.text)

ModProviderResult(prov) ==
    CASE prov.kind = "ok" -> prov.text
      [] prov.kind = "UnknownValueError" -> ModUnintelligible
      [] prov.kind = "RequestError" -> ModApiUnavailable(prov.text)
      [] OTHER -> GenericError(prov.text)

RegProviderResultNoRequestClause(prov) ==
    CASE prov.kind = "ok" -> prov.text
      [] prov.kind = "UnknownValueError" -> RegUnintelligible
      [] OTHER -> GenericError(prov.text)

RegProviderResult(prov) ==
    CASE prov.kind = "ok" -> prov.text
      [] prov.kind = "UnknownValueError" -> RegUnintelligible
      [] prov.kind = "RequestError" -> RegApiError(prov.text)
      [] OTHER -> GenericError(prov.text)

\* Result of the call and the number of provider calls it made.
ModTranscribeNoKeyCheck(api, language, wit_key, audio, prov) ==
    [result |-> ModProviderResult(prov), calls |-> 1]

ModTranscribeKeyInverted(api, language, wit_key, audio, prov) ==
    IF api = "Wit.ai" /\ ~Falsy(wit_key)
    THEN [result |-> KeyRequired, calls |-> 0]
    ELSE [result |-> ModProviderResult(prov), calls |-> 1]

ModTranscribeRetry(api, language, wit_key, audio, prov) ==
    IF api = "Wit.ai" /\ Falsy(wit_key)
    THEN [result |-> KeyRequired, calls |-> 0]
    ELSE [result |-> ModProviderResult(prov),
          calls |-> IF prov.kind = "RequestError" THEN 2 ELSE 1]

ModTranscribeSpeech(api, language, wit_key, audio, prov) ==
    IF api = "Wit.ai" /\ Falsy(wit_key)
    THEN [result |-> KeyRequired, calls |-> 0]
    ELSE [result |-> ModProviderResult(prov), calls |-> 1]

\* The missing key raises ValueError, which the last except clause turns
\* into "Error: " + str(e).
RegTranscribeSpeech(api, language, wit_key, audio, prov) ==
    IF api = "Wit.ai" /\ Falsy(wit_key)
    THEN [result |-> GenericError(<<"Wit.ai API key is required">>), calls |-> 0]
    ELSE [result |-> RegProviderResult(prov), calls |-> 1]

\* ---- session state ----

ModSessionInit ==
    [recording |-> FALSE, transcript |-> <<>>, audio_source |-> None,
     audio_data |-> None, calibrated |-> FALSE,
     selected_api |-> "Google", selected_language |-> "en-US", wit_key |-> None,
     created |-> 0, opened |-> 0, closed |-> 0, listens |-> 0, calls |-> 0,
     stops |-> 0, escaped |-> "none", rerun |-> FALSE,
     audio_take |-> 0, rec_at_listen |-> FALSE,
     adapter_calls |-> 0, adapter_audio |-> None, adapter_take |-> 0]

RegSessionInit == [ModSessionInit EXCEPT !.audio_data = Unset]

\* Entry of a handler: nothing has escaped yet, no rerun requested.
Enter(v) == [v EXCEPT !.escaped = "none", !.rerun = FALSE]

\* ---- the with statement ----

\* Leaving a `with source` block, normally or by an exception raised in its
\* body: __exit__ closes the stream.
WithExitLeaky(v, raised) ==
    IF raised THEN v ELSE [v EXCEPT !.closed = @ + 1]

WithExit(v, raised) == [v EXCEPT !.closed = @ + 1]

\* ---- start_recording ----

ModStartOnlyOnce(v, e) ==
    IF v.audio_source # None THEN v
    ELSE LET v1 == [v EXCEPT !.recording = TRUE] IN
         IF e.ctor = "fail" THEN [v1 EXCEPT !.escaped = "OSError"]
         ELSE [v1 EXCEPT !.audio_source = Mic, !.created = @ + 1, !.calibrated = FALSE]

ModStartRecording(v, e) ==
    LET v1 == [v EXCEPT !.recording = TRUE] IN
    IF e.ctor = "fail" THEN [v1 EXCEPT !.escaped = "OSError"]
    ELSE [v1 EXCEPT !.audio_source = Mic, !.created = @ + 1, !.calibrated = FALSE]

RegStartRecording(v, e) ==
    LET v1 == [v EXCEPT !.recording = TRUE] IN
    IF e.ctor = "fail" THEN [v1 EXCEPT !.escaped = "OSError"]
    ELSE LET v2 == [v1 EXCEPT !.audio_source = Mic, !.created = @ + 1] IN
         IF e.open = "fail" THEN [v2 EXCEPT !.escaped = "OSError"]
         ELSE LET v3 == [v2 EXCEPT !.opened = @ + 1] IN
              IF e.adjust = "fail"
              THEN [WithExit(v3, TRUE) EXCEPT !.escaped = "Exception"]
              ELSE WithExit([v3 EXCEPT !.calibrated = TRUE, !.audio_data = None], FALSE)

\* ---- stop_recording ----

\* `st.session_state.recording = False`, the first statement under the guard.
ClearRecordingOmitted(v) == [v EXCEPT !.stops = @ + 1]

ClearRecording(v) == [v EXCEPT !.recording = FALSE, !.stops = @ + 1]

\* `audio_data = recognizer.listen(source)` returning a buffer: audio_take
\* numbers the listen() call that filled audio_data.
ListenResultDropped(v, e) == [v EXCEPT !.listens = @ + 1]

Listen(v, e) ==
    [v EXCEPT !.audio_data = e.listen, !.listens = @ + 1, !.audio_take = v.listens + 1]

\* The call of transcribe_speech and the assignment of its result: the
\* adapter_* fields record the audio_data the call found in the session.
ModStoreTranscript(v, e) ==
    LET r == ModTranscribeSpeech(v.selected_api, v.selected_language,
                                 v.wit_key, v.audio_data, e.prov)
    IN [v EXCEPT !.transcript = r.result, !.calls = @ + r.calls,
                 !.adapter_calls = @ + 1, !.adapter_audio = v.audio_data,
                 !.adapter_take = v.audio_take]

RegStoreTranscript(v, e) ==
    LET r == RegTranscribeSpeech(v.selected_api, v.selected_language,
                                 v.wit_key, v.audio_data, e.prov)
    IN [v EXCEPT !.transcript = r.result, !.calls = @ + r.calls,
                 !.adapter_calls = @ + 1, !.adapter_audio = v.audio_data,
                 !.adapter_take = v.audio_take]

\* The body under `if st.session_state.recording:`.  rec_at_listen is the
\* value of the recording flag when listen() is called.
ModStopBody(v, e) ==
    LET v1 == ClearRecording(v) IN
    IF v1.audio_source = None
    THEN [v1 EXCEPT !.transcript = RecordingError(<<"__enter__">>)]
    ELSE IF e.open = "fail"
    THEN [v1 EXCEPT !.transcript = RecordingError(<<"detail">>)]
    ELSE LET v2 == [v1 EXCEPT !.opened = @ + 1, !.rec_at_listen = v1.recording] IN
         IF e.listen = "fail"
         THEN [WithExit(v2, TRUE) EXCEPT !.transcript = RecordingError(<<"detail">>)]
         ELSE ModStoreTranscript(WithExit(Listen(v2, e), FALSE), e)

ModStopUnguarded(v, e) == ModStopBody(v, e)

ModStopRecording(v, e) ==
    IF ~v.recording THEN v ELSE ModStopBody(v, e)

RegStopBody(v, e) ==
    LET v1 == ClearRecording(v) IN
    IF v1.audio_source = None
    THEN [v1 EXCEPT !.escaped = "AttributeError"]
    ELSE IF e.open = "fail"
    THEN [v1 EXCEPT !.escaped = "OSError"]
    ELSE LET v2 == [v1 EXCEPT !.opened = @ + 1, !.rec_at_listen = v1.recording] IN
         IF e.listen = "fail"
         THEN [WithExit(v2, TRUE) EXCEPT !.escaped = "Exception"]
         ELSE RegStoreTranscript(WithExit(Listen(v2, e), FALSE), e)

RegStopRecording(v, e) ==
    IF ~v.recording THEN v ELSE RegStopBody(v, e)

\* ---- pause_recording ----

ModPauseToggles(v) == [v EXCEPT !.recording = ~@]

ModPauseRecording(v) ==
    IF v.recording THEN [v EXCEPT !.recording = FALSE] ELSE v

RegPauseRecording(v) ==
    IF v.recording THEN [v EXCEPT !.recording = FALSE, !.rerun = TRUE] ELSE v

\* ---- settings sidebar of main() ----

SettingsResetsSession(v, api, language, key) ==
    [v EXCEPT !.selected_api = api, !.selected_language = language,
              !.wit_key = IF api = "Wit.ai" THEN key ELSE None,
              !.recording = FALSE, !.transcript = <<>>]

SettingsKeepsKey(v, api, language, key) ==
    [v EXCEPT !.selected_api = api, !.selected_language = language,
              !.wit_key = IF api = "Wit.ai" THEN key ELSE @]

Settings(v, api, language, key) ==
    [v EXCEPT !.selected_api = api, !.selected_language = language,
              !.wit_key = IF api = "Wit.ai" THEN key ELSE None]

\* ---- the state machine ----

Init ==
    /\ mod = ModSessionInit
    /\ reg = RegSessionInit
    /\ last = [op |-> "init", env |-> NoEnv, mod |-> ModSessionInit, reg |-> RegSessionInit]
    /\ steps = 0
    /\ effective = <<>>

\* The intents that changed the session, in order: a handler whose guard
\* was false leaves no trace.
Effect(op) ==
    effective' = IF mod' # Enter(mod) \/ reg' # Enter(reg)
                 THEN Append(effective, op) ELSE effective

StartWith(envs) ==
    /\ steps < MaxSteps
    /\ \E e \in envs :
        /\ mod' = ModStartRecording(Enter(mod), e)
        /\ reg' = RegStartRecording(Enter(reg), e)
        /\ last' = [op |-> "start", env |-> e, mod |-> mod, reg |-> reg]
    /\ steps' = steps + 1
    /\ Effect("start")

StopWith(envs) ==
    /\ steps < MaxSteps
    /\ \E e \in envs :
        /\ mod' = ModStopRecording(Enter(mod), e)
        /\ reg' = RegStopRecording(Enter(reg), e)
        /\ last' = [op |-> "stop", env |-> e, mod |-> mod, reg |-> reg]
    /\ steps' = steps + 1
    /\ Effect("stop")

Start == StartWith(StartEnvs)

Stop == StopWith(StopEnvs)

Pause ==
    /\ steps < MaxSteps
    /\ mod' = ModPauseRecording(Enter(mod))
    /\ reg' = RegPauseRecording(Enter(reg))
    /\ last' = [op |-> "pause", env |-> NoEnv, mod |-> mod, reg |-> reg]
    /\ steps' = steps + 1
    /\ Effect("pause")

ChangeSettings ==
    /\ \E api \in APIs, language \in Languages, key \in KeyInputs :
        /\ mod' = Settings(mod, api, language, key)
        /\ reg' = Settings(reg, api, language, key)
    /\ last' = [op |-> "settings", env |-> NoEnv, mod |-> mod, reg |-> reg]
    /\ UNCHANGED <<steps, effective>>

Next == Start \/ Stop \/ Pause \/ ChangeSettings

Spec == Init /\ [][Next]_vars

\* The same program with a microphone that never fails: construction, the
\* stream, the calibration and listen() all succeed; the provider is free.
FailureFree(envs) == { e \in envs : "fail" \notin {e.ctor, e.open, e.adjust, e.listen} }

StartFailureFree == StartWith(FailureFree(StartEnvs))

StopFailureFree == StopWith(FailureFree(StopEnvs))

NextFailureFree == StartFailureFree \/ StopFailureFree \/ Pause \/ ChangeSettings

SpecFailureFree == Init /\ [][NextFailureFree]_vars

\* ---- vocabulary of the properties ----

Intents == {"start", "pause", "stop"}

\* stop_recording ran from Recording and listen() returned an audio buffer.
CaptureOk(pre, e) ==
    /\ pre.recording
    /\ pre.audio_source # None
    /\ e.open = "ok"
    /\ e.listen \in {"speech", "silent"}

\* The last handler run met a failure of the microphone, the calibration,
\* listen() or the provider.
ModFailed ==
    \/ last.op = "start" /\ last.env.ctor = "fail"
    \/ /\ last.op = "stop" /\ last.mod.recording
       /\ \/ ~CaptureOk(last.mod, last.env)
          \/ last.env.prov.kind \in {"UnknownValueError", "RequestError", "Exception"}

RegFailed ==
    \/ last.op = "start" /\ "fail" \in {last.env.ctor, last.env.open, last.env.adjust}
    \/ /\ last.op = "stop" /\ last.reg.recording
       /\ \/ ~CaptureOk(last.reg, last.env)
          \/ last.env.prov.kind \in {"UnknownValueError", "RequestError", "Exception"}

StartsWithError(t) == Len(t) > 0 /\ t[1] = "Error:"

KeyUsable(v) == ~(v.selected_api = "Wit.ai" /\ Falsy(v.wit_key))

\* ---- C1 ----
\* C1: no exception escapes start_recording, pause_recording or
\* stop_recording in either variant; a failure ends up as an error string
\* in transcript.
C1_NoExceptionEscapes ==
    last.op \in Intents =>
        /\ mod.escaped = "none" /\ reg.escaped = "none"
        /\ ModFailed => Len(mod.transcript) > 0 /\ mod.transcript \notin Texts
        /\ RegFailed => Len(reg.transcript) > 0 /\ reg.transcript \notin Texts

\* ---- C2 ----
\* C2: after a failure during capture or transcription, in start or in
\* stop, the session is Idle (recording = FALSE) when the operation ends.
C2_FailureLeavesIdle ==
    /\ ModFailed => ~mod.recording
    /\ RegFailed => ~reg.recording

\* ---- C3 ----
\* C3: stop() when the session is not Recording changes nothing: the
\* recording flag, the transcript, the captured audio, the microphone and
\* the counts of captures and provider calls are what they were.
C3_StopWhenNotRecordingIsNoOp ==
    last.op = "stop" =>
        /\ ~last.mod.recording => mod = Enter(last.mod)
        /\ ~last.reg.recording => reg = Enter(last.reg)

\* A stop() arrived in Idle after a completed cycle, with a transcript on
\* display.
C3_Witness ==
    /\ last.op = "stop"
    /\ ~last.mod.recording /\ ~last.reg.recording
    /\ last.mod.stops > 0 /\ last.reg.stops > 0
    /\ last.mod.transcript \in Texts /\ last.reg.transcript \in Texts
    /\ mod.transcript = last.mod.transcript /\ reg.transcript = last.reg.transcript

\* ---- C4 ----
\* C4: start() when already Recording keeps the state Recording and
\* creates or opens no further microphone object.
C4_StartWhenRecordingIsNoOp ==
    last.op = "start" =>
        /\ last.mod.recording =>
              /\ mod.recording
              /\ mod.created = last.mod.created /\ mod.opened = last.mod.opened
        /\ last.reg.recording =>
              /\ reg.recording
              /\ reg.created = last.reg.created /\ reg.opened = last.reg.opened

\* ---- C5 ----
\* C5: with Wit.ai and an absent or empty key, transcribe_speech returns the
\* missing-key error and calls no provider, whatever the audio and whatever
\* the provider would have answered; a stop() under that setting makes no
\* provider call and, once audio is captured, leaves the missing-key error in
\* transcript.
C5_MissingKeyNoProviderCall ==
    /\ \A key \in {None, ""}, language \in Languages,
          audio \in {"speech", "silent"} :
          \A prov \in ProviderOutcomes(audio) :
             /\ ModTranscribeSpeech("Wit.ai", language, key, audio, prov)
                   = [result |-> KeyRequired, calls |-> 0]
             /\ RegTranscribeSpeech("Wit.ai", language, key, audio, prov)
                   = [result |-> KeyRequired, calls |-> 0]
    /\ (last.op = "stop" /\ ~KeyUsable(last.mod)) =>
          /\ mod.calls = last.mod.calls
          /\ CaptureOk(last.mod, last.env) => mod.transcript = KeyRequired
    /\ (last.op = "stop" /\ ~KeyUsable(last.reg)) =>
          /\ reg.calls = last.reg.calls
          /\ CaptureOk(last.reg, last.env) => reg.transcript = KeyRequired

\* start() then stop() with Wit.ai and the empty key, audio captured.
C5_Witness ==
    /\ last.op = "stop"
    /\ last.mod.selected_api = "Wit.ai" /\ last.mod.wit_key = ""
    /\ CaptureOk(last.mod, last.env) /\ CaptureOk(last.reg, last.env)
    /\ last.env.prov.kind = "ok"
    /\ mod.transcript = KeyRequired /\ reg.transcript = KeyRequired
    /\ mod.calls = 0 /\ reg.calls = 0

\* ---- C6 ----
\* C6: the transcript is always empty, a text returned by a provider, or a
\* message that begins with "Error:".
C6_TranscriptIsTextOrErrorPrefixed ==
    \A t \in {mod.transcript, reg.transcript} :
        t = <<>> \/ t \in Texts \/ StartsWithError(t)

\* ---- C7 ----
\* C7: the microphone stream is closed as often as it was opened whenever a
\* handler has returned, in particular whenever the session is Idle, also
\* after a failure inside the with block.
C7_AcquiredEqualsReleased ==
    /\ mod.opened = mod.closed
    /\ reg.opened = reg.closed

\* The stream was opened and the body of the with block then failed
\* (listen() in stop, the calibration in speech_reg.py's start).
C7_Witness ==
    /\ last.op = "stop" /\ last.env.open = "ok" /\ last.env.listen = "fail"
    /\ ~mod.recording /\ ~reg.recording
    /\ mod.opened > last.mod.opened /\ reg.opened > last.reg.opened
    /\ reg.opened >= 2

\* ---- C8 ----
\* C8: after stop() from Recording with audio captured and the provider of
\* the selected backend returning text T (Google, Sphinx, or Wit.ai with a
\* non-empty key), transcript is exactly T and the session is Idle.
C8_SuccessStoresText ==
    (last.op = "stop" /\ last.env.prov.kind = "ok") =>
        /\ (CaptureOk(last.mod, last.env) /\ KeyUsable(last.mod)) =>
              mod.transcript = last.env.prov.text /\ ~mod.recording
        /\ (CaptureOk(last.reg, last.env) /\ KeyUsable(last.reg)) =>
              reg.transcript = last.env.prov.text /\ ~reg.recording

\* A second cycle with Wit.ai and a key replaces the text of the first.
C8_Witness ==
    /\ last.op = "stop" /\ last.env.prov.kind = "ok"
    /\ CaptureOk(last.mod, last.env) /\ CaptureOk(last.reg, last.env)
    /\ last.mod.selected_api = "Wit.ai" /\ last.mod.wit_key = "k1"
    /\ last.mod.transcript \in Texts /\ last.reg.transcript \in Texts
    /\ last.mod.transcript # last.env.prov.text
    /\ mod.transcript = last.env.prov.text /\ reg.transcript = last.env.prov.text

\* ---- C9 ----
\* C9 as stated: for every backend and every key setting, stop() on a
\* silent capture that the provider would report as not understood leaves the
\* Unintelligible message in transcript.
C9_SilentAlwaysUnintelligible ==
    (last.op = "stop" /\ last.env.listen = "silent"
       /\ last.env.prov.kind = "UnknownValueError") =>
        /\ CaptureOk(last.mod, last.env) => mod.transcript = ModUnintelligible
        /\ CaptureOk(last.reg, last.env) => reg.transcript = RegUnintelligible

\* C9 as amended: on silent audio transcribe_speech never returns a provider
\* text; when the provider is reached (Google, Sphinx, or Wit.ai with a
\* non-empty key) and reports the audio as not understood, the result is the
\* Unintelligible message, which begins with "Error:"; with Wit.ai and an
\* absent or empty key the result is the missing-key error instead.
C9_SilentUnintelligibleWhenProviderReached ==
    /\ StartsWithError(ModUnintelligible) /\ StartsWithError(RegUnintelligible)
    /\ ModUnintelligible # KeyRequired /\ RegUnintelligible # KeyRequired
    /\ (last.op = "stop" /\ last.env.listen = "silent") =>
        /\ CaptureOk(last.mod, last.env) =>
              /\ mod.transcript \notin Texts
              /\ (KeyUsable(last.mod) /\ last.env.prov.kind = "UnknownValueError")
                    => mod.transcript = ModUnintelligible
              /\ ~KeyUsable(last.mod) => mod.transcript = KeyRequired
        /\ CaptureOk(last.reg, last.env) =>
              /\ reg.transcript \notin Texts
              /\ (KeyUsable(last.reg) /\ last.env.prov.kind = "UnknownValueError")
                    => reg.transcript = RegUnintelligible
              /\ ~KeyUsable(last.reg) => reg.transcript = KeyRequired

\* start() then stop() on a silent buffer with a reachable provider.
C9_Witness ==
    /\ last.op = "stop" /\ last.env.listen = "silent"
    /\ last.env.prov.kind = "UnknownValueError"
    /\ CaptureOk(last.mod, last.env) /\ CaptureOk(last.reg, last.env)
    /\ KeyUsable(last.mod)
    /\ mod.transcript = ModUnintelligible /\ reg.transcript = RegUnintelligible

\* ---- C10 ----
\* C10: a stop() makes at most one provider call, and the provider calls
\* made so far never exceed the stop() calls made while Recording, also
\* when the provider fails.
C10_NoRetry ==
    /\ mod.calls <= mod.stops /\ reg.calls <= reg.stops
    /\ last.op = "stop" =>
          /\ mod.calls - last.mod.calls \in {0, 1}
          /\ reg.calls - last.reg.calls \in {0, 1}
    /\ last.op \in {"start", "pause", "settings"} =>
          mod.calls = last.mod.calls /\ reg.calls = last.reg.calls

\* The provider reported a service failure and was called once.
C10_Witness ==
    /\ last.op = "stop" /\ last.env.prov.kind = "RequestError"
    /\ CaptureOk(last.mod, last.env) /\ CaptureOk(last.reg, last.env)
    /\ mod.calls = last.mod.calls + 1 /\ reg.calls = last.reg.calls + 1
    /\ mod.calls = mod.stops

\* ---- C11 ----
IsNull(a) == a \in {None, Unset}

\* C11: start() resets audio_data, so a buffer never survives into a new
\* recording cycle: after start() audio_data is null, and after a stop()
\* from Recording whose capture failed it is null as well.
C11_AudioResetEachCycle ==
    /\ last.op = "start" => IsNull(mod.audio_data) /\ IsNull(reg.audio_data)
    /\ (last.op = "stop" /\ last.mod.recording /\ ~CaptureOk(last.mod, last.env))
          => IsNull(mod.audio_data)
    /\ (last.op = "stop" /\ last.reg.recording /\ ~CaptureOk(last.reg, last.env))
          => IsNull(reg.audio_data)

\* ---- C12 ----
\* C12: the session starts Idle with an empty transcript; start(), pause()
\* and a stop() outside Recording leave transcript as it was, and a change of
\* settings leaves both the recording flag and transcript as they were.
C12_TranscriptWrittenOnlyByStop ==
    /\ last.op = "init" =>
          /\ ~mod.recording /\ mod.transcript = <<>>
          /\ ~reg.recording /\ reg.transcript = <<>>
    /\ last.op \in {"start", "pause", "settings"} =>
          /\ mod.transcript = last.mod.transcript
          /\ reg.transcript = last.reg.transcript
    /\ last.op = "settings" =>
          /\ mod.recording = last.mod.recording
          /\ reg.recording = last.reg.recording
    /\ (last.op = "stop" /\ ~last.mod.recording) => mod.transcript = last.mod.transcript
    /\ (last.op = "stop" /\ ~last.reg.recording) => reg.transcript = last.reg.transcript

\* The backend is changed while Recording, after a first cycle left a text.
C12_Witness ==
    /\ last.op = "settings"
    /\ last.mod.selected_api # mod.selected_api
    /\ mod.recording /\ reg.recording
    /\ mod.transcript \in Texts /\ reg.transcript \in Texts

\* ---- C13 ----
\* The last n intents that took effect.
LastEffective(n) ==
    IF Len(effective) >= n
    THEN SubSeq(effective, Len(effective) - n + 1, Len(effective))
    ELSE <<>>

\* C13: start() always leaves the session Recording, in particular right
\* after a pause(); a stop() from Recording then runs listen() once and, when
\* it returns audio, stores the result of transcribe_speech in transcript.
C13_StartResumesRecording ==
    /\ last.op = "start" => mod.recording /\ reg.recording
    /\ (last.op = "stop" /\ last.mod.recording) =>
          /\ ~mod.recording
          /\ CaptureOk(last.mod, last.env) =>
                /\ mod.listens = last.mod.listens + 1
                /\ mod.audio_data = last.env.listen
                /\ mod.transcript # RecordingError(<<"detail">>)
                /\ KeyUsable(last.mod) => mod.calls = last.mod.calls + 1
    /\ (last.op = "stop" /\ last.reg.recording) =>
          /\ ~reg.recording
          /\ CaptureOk(last.reg, last.env) =>
                /\ reg.listens = last.reg.listens + 1
                /\ reg.audio_data = last.env.listen
                /\ reg.escaped = "none"
                /\ KeyUsable(last.reg) => reg.calls = last.reg.calls + 1

\* start(), pause(), start(), then one stop() that captured and transcribed.
C13_Witness ==
    /\ LastEffective(3) = <<"pause", "start", "stop">>
    /\ last.op = "stop" /\ last.env.prov.kind = "ok"
    /\ mod.listens = 1 /\ reg.listens = 1
    /\ mod.transcript = last.env.prov.text /\ reg.transcript = last.env.prov.text

\* ---- C14 ----
\* C14 as stated: the stored key is non-empty exactly when the selected
\* backend is Wit.ai.
C14_KeyNonEmptyIffWit ==
    /\ ~Falsy(mod.wit_key) <=> mod.selected_api = "Wit.ai"
    /\ ~Falsy(reg.wit_key) <=> reg.selected_api = "Wit.ai"

\* C14 as amended: a non-empty key is stored only while Wit.ai is selected;
\* with any other backend the key is None, and with Wit.ai it is the text of
\* the key field, which may be empty.
C14_KeyOnlyWithWit ==
    \A v \in {mod, reg} :
        /\ ~Falsy(v.wit_key) => v.selected_api = "Wit.ai"
        /\ v.selected_api # "Wit.ai" => v.wit_key = None
        /\ v.selected_api = "Wit.ai" => v.wit_key \in KeyInputs

\* A key had been entered for Wit.ai and another backend is then selected.
C14_Witness ==
    /\ last.op = "settings"
    /\ last.mod.selected_api = "Wit.ai" /\ last.mod.wit_key = "k1"
    /\ last.reg.selected_api = "Wit.ai" /\ last.reg.wit_key = "k1"
    /\ mod.selected_api = "Sphinx" /\ mod.wit_key = None
    /\ reg.selected_api = "Sphinx" /\ reg.wit_key = None

\* ---- C15 ----
\* transcribe_speech was called by the last handler run.
AdapterInvoked(v, pre) == v.adapter_calls # pre.adapter_calls

\* The audio the adapter found was filled by a listen() of this very run.
HeardFreshAudio(v, pre) ==
    /\ last.op = "stop" /\ pre.recording
    /\ v.adapter_calls = pre.adapter_calls + 1
    /\ v.listens = pre.listens + 1
    /\ v.adapter_take = v.listens
    /\ ~IsNull(v.adapter_audio) /\ v.adapter_audio = last.env.listen

\* C15: whenever transcribe_speech is invoked, and so whenever a provider
\* is called, the audio_data it reads is non-null and was returned by listen()
\* in the same stop() call.
C15_AdapterReadsFreshAudio ==
    /\ AdapterInvoked(mod, last.mod) => HeardFreshAudio(mod, last.mod)
    /\ AdapterInvoked(reg, last.reg) => HeardFreshAudio(reg, last.reg)
    /\ mod.calls # last.mod.calls => AdapterInvoked(mod, last.mod)
    /\ reg.calls # last.reg.calls => AdapterInvoked(reg, last.reg)

\* The second cycle: a buffer of the first cycle was still in the session
\* and the adapter read the new one.
C15_Witness ==
    /\ last.op = "stop"
    /\ last.mod.audio_data = "speech" /\ last.env.listen = "silent"
    /\ AdapterInvoked(mod, last.mod) /\ AdapterInvoked(reg, last.reg)
    /\ mod.adapter_audio = "silent" /\ reg.adapter_audio = "silent"
    /\ mod.adapter_take = 2 /\ reg.adapter_take = 2
    /\ mod.calls = 2

\* ---- C16 ----
\* The state of the four-state machine that a session stands for:
\* Recording when the flag is set, otherwise Paused when the last intent that
\* took effect was pause(), otherwise Idle.  Processing lies inside stop().
AbsState(v, eff) ==
    IF v.recording THEN "Recording"
    ELSE IF Len(eff) > 0 /\ eff[Len(eff)] = "pause" THEN "Paused"
    ELSE "Idle"

\* The rows of the transition table (From, Event, To).
TableRow(from, op, to) ==
    \/ from = "Idle" /\ op = "start" /\ to = "Recording"
    \/ from = "Recording" /\ op = "pause" /\ to = "Paused"
    \/ from = "Paused" /\ op = "start" /\ to = "Recording"
    \/ from = "Recording" /\ op = "stop" /\ to = "Idle"
    \/ from = "Paused" /\ op = "stop" /\ to = "Idle"

\* The no-ops: start() when Recording, stop() and pause() when not Recording.
TableNoOp(from, op) ==
    \/ from = "Recording" /\ op = "start"
    \/ from # "Recording" /\ op \in {"stop", "pause"}

\* One step of a variant seen through AbsState.
RefinesTable(v, w) ==
    LET from == AbsState(v, effective)
        to == AbsState(w, effective')
        op == last'.op
    IN \/ op = "settings" /\ to = from
       \/ TableRow(from, op, to)
       \/ /\ TableNoOp(from, op) /\ to = from
          /\ op \in {"stop", "pause"} => w = Enter(v)

\* C16: every step of start/pause/stop of either variant, seen through
\* AbsState, is a row of the transition table or a no-op that leaves the
\* abstract state where it was; pause() and stop() outside Recording change
\* nothing at all.
C16_FlagRefinesTable ==
    [][RefinesTable(mod, mod') /\ RefinesTable(reg, reg')]_vars

\* pause() arrived in Idle, after a completed cycle, and nothing changed.
C16_Witness ==
    /\ last.op = "pause" /\ ~last.mod.recording /\ ~last.reg.recording
    /\ LastEffective(1) = <<"stop">>
    /\ AbsState(mod, effective) = "Idle" /\ AbsState(reg, effective) = "Idle"
    /\ mod = Enter(last.mod) /\ reg = Enter(last.reg)

\* ---- C17 ----
\* The kind of outcome a transcript shows.
OutcomeKind(t) ==
    CASE t = <<>> -> "Empty"
      [] t \in Texts -> "Ok"
      [] t \in {ModUnintelligible, RegUnintelligible} -> "Unintelligible"
      [] t = KeyRequired -> "ConfigError"
      [] t \in {ModApiUnavailable(d) : d \in Details}
               \cup {RegApiError(d) : d \in Details} -> "ServiceUnavailable"
      [] t \in {GenericError(d) : d \in Details} -> "Unknown"
      [] OTHER -> "CaptureError"

\* C17: with a microphone that never fails, the two variants show the same
\* recording flag and the same kind of transcript outcome after every step,
\* and the same text when the outcome is a transcription.
C17_VariantsAgree ==
    /\ mod.recording = reg.recording
    /\ OutcomeKind(mod.transcript) = OutcomeKind(reg.transcript)
    /\ OutcomeKind(mod.transcript) \in
          {"Empty", "Ok", "Unintelligible", "ConfigError", "ServiceUnavailable", "Unknown"}
    /\ OutcomeKind(mod.transcript) = "Ok" => mod.transcript = reg.transcript

\* A service failure: the variants word it differently.
C17_Witness ==
    /\ last.op = "stop" /\ last.env.prov.kind = "RequestError"
    /\ mod.transcript # reg.transcript
    /\ OutcomeKind(mod.transcript) = "ServiceUnavailable"
    /\ OutcomeKind(reg.transcript) = "ServiceUnavailable"

====
